---- MODULE Spec2Model ----
(***************************************************************************)
(* Model of src/app.py: a grid chase game.  The player looks for a key and *)
(* an exit while an enemy (the "oni") moves on a wall-clock interval.       *)
(*                                                                         *)
(* st.session_state is the record session_state.  Every function of the     *)
(* source is an operator from a session state to the session state it      *)
(* leaves behind; random choices and the clock are the inputs drawn by the  *)
(* actions.  One script run is: initialize_game (a no-op once a session     *)
(* exists), automatic_oni_move, then at most one widget handler.  pc is the  *)
(* position inside the script run, op the last operation performed.         *)
(* secrets tells whether st.secrets holds usable service-account            *)
(* credentials, that is whether get_gspread_client() returns a client.      *)
(***************************************************************************)
EXTENDS Integers, Sequences, FiniteSets, TLC

VARIABLES session_state, pc, op, secrets

vars == <<session_state, pc, op, secrets>>

----------------------------------------------------------------------------
(* Bounds of the model.  The source plays on an 18 x 14 grid with 30 walls  *)
(* and at most 40 obstacles; the model keeps the code and shrinks the grid.  *)
MAP_WIDTH == 6
MAP_HEIGHT == 4
NUM_WALLS == 3
MAX_OBSTACLES == 1
MaxClear == 2
MaxCmdLen == 2
TimeStep == 5

(* Program constants.  Times are in tenths of a second.                     *)
STUN_TURNS == 3
INTERVAL_EASY == 15
INTERVAL_NORMAL == 10
INTERVAL_HARD == 8
INITIAL_TRAP_COUNT == 1

WALL == "W"
FLOOR == "F"
OBSTACLE == "O"

EASY == "easy"
NORMAL == "normal"
HARD == "hard"
Difficulties == {EASY, NORMAL, HARD}

(* Python's None for a position (falsy, like the empty list).               *)
None == <<>>

INITIAL_PLAYER_POS == <<1, 1>>
EXIT_POS == <<MAP_WIDTH - 2, 1>>

Min(a, b) == IF a < b THEN a ELSE b
Abs(a) == IF a < 0 THEN 0 - a ELSE a

(* The cells of the double loops "for y in range(1, MAP_HEIGHT - 1): for x  *)
(* in range(1, MAP_WIDTH - 1)".                                             *)
Interior == {<<x, y>> : x \in 1..(MAP_WIDTH - 2), y \in 1..(MAP_HEIGHT - 2)}

(* random.sample(population, k): any k distinct elements.                   *)
Sample(population, k) == {S \in SUBSET population : Cardinality(S) = k}

----------------------------------------------------------------------------
(* is_path_possible: breadth-first search with a queue and a visited set.   *)

Neighbours == << <<0, 1>>, <<0, -1>>, <<1, 0>>, <<-1, 0>> >>

(* bfs_expand without the test for WALL.                                   *)
RECURSIVE bfs_expand_through_walls(_, _, _, _, _)
bfs_expand_through_walls(game_map, cur, i, queue, visited) ==
    IF i > Len(Neighbours) THEN <<queue, visited>>
    ELSE LET nx == cur[1] + Neighbours[i][1]
             ny == cur[2] + Neighbours[i][2]
             fresh == /\ 0 <= ny /\ ny < MAP_HEIGHT /\ 0 <= nx /\ nx < MAP_WIDTH
                      /\ <<nx, ny>> \notin visited
         IN  IF fresh
             THEN bfs_expand_through_walls(game_map, cur, i + 1,
                                           Append(queue, <<nx, ny>>),
                                           visited \cup {<<nx, ny>>})
             ELSE bfs_expand_through_walls(game_map, cur, i + 1, queue, visited)

RECURSIVE bfs_expand(_, _, _, _, _)
bfs_expand(game_map, cur, i, queue, visited) ==
    IF i > Len(Neighbours) THEN <<queue, visited>>
    ELSE LET nx == cur[1] + Neighbours[i][1]
             ny == cur[2] + Neighbours[i][2]
             fresh == /\ 0 <= ny /\ ny < MAP_HEIGHT /\ 0 <= nx /\ nx < MAP_WIDTH
                      /\ <<nx, ny>> \notin visited
                      /\ game_map[ny][nx] # WALL
         IN  IF fresh
             THEN bfs_expand(game_map, cur, i + 1, Append(queue, <<nx, ny>>),
                             visited \cup {<<nx, ny>>})
             ELSE bfs_expand(game_map, cur, i + 1, queue, visited)

RECURSIVE bfs_loop(_, _, _, _)
bfs_loop(game_map, queue, visited, end_pos) ==
    IF queue = <<>> THEN FALSE
    ELSE LET cur == Head(queue)
         IN  IF cur = end_pos THEN TRUE
             ELSE LET nxt == bfs_expand(game_map, cur, 1, Tail(queue), visited)
                  IN  bfs_loop(game_map, nxt[1], nxt[2], end_pos)

is_path_possible(game_map, start_pos, end_pos) ==
    IF start_pos = None \/ end_pos = None THEN FALSE
    ELSE bfs_loop(game_map, <<start_pos>>, {start_pos}, end_pos)

----------------------------------------------------------------------------
(* generate_map: the set of (game_map, key_pos) pairs the loop can return.  *)

(* possible_wall_positions without the start and the exit set aside.        *)
possible_wall_positions_unreserved == Interior

possible_wall_positions == Interior \ {INITIAL_PLAYER_POS, EXIT_POS}

wall_samples ==
    IF Cardinality(possible_wall_positions) >= NUM_WALLS
    THEN Sample(possible_wall_positions, NUM_WALLS)
    ELSE {{}}

walled_map(walls) ==
    [y \in 0..(MAP_HEIGHT - 1) |->
        [x \in 0..(MAP_WIDTH - 1) |->
            IF \/ y = 0 \/ y = MAP_HEIGHT - 1 \/ x = 0 \/ x = MAP_WIDTH - 1
               \/ <<x, y>> \in walls
            THEN WALL ELSE FLOOR]]

possible_key_positions(game_map) ==
    {p \in Interior : game_map[p[2]][p[1]] = FLOOR
                      /\ p \notin {INITIAL_PLAYER_POS, EXIT_POS}}

(* The shuffled candidates are tried in turn: any candidate passing both    *)
(* searches can be the first one; a map with none is thrown away.           *)
valid_key_positions(game_map) ==
    {p \in possible_key_positions(game_map) :
        /\ is_path_possible(game_map, INITIAL_PLAYER_POS, p)
        /\ is_path_possible(game_map, p, EXIT_POS)}

(* possible_obstacle_positions excluding the key cell only.                 *)
possible_obstacle_positions_unreserved(game_map, key_pos) ==
    {p \in Interior : game_map[p[2]][p[1]] = FLOOR /\ p # key_pos}

possible_obstacle_positions(game_map, key_pos) ==
    {p \in Interior : game_map[p[2]][p[1]] = FLOOR
                      /\ p \notin {INITIAL_PLAYER_POS, key_pos, EXIT_POS}}

obstacle_samples(game_map, key_pos, clear_count) ==
    LET num_obstacles == Min(clear_count, MAX_OBSTACLES)
        possible == possible_obstacle_positions(game_map, key_pos)
    IN  IF num_obstacles > 0 /\ Cardinality(possible) >= num_obstacles
        THEN Sample(possible, num_obstacles)
        ELSE {{}}

with_obstacles(game_map, obstacles) ==
    [y \in 0..(MAP_HEIGHT - 1) |->
        [x \in 0..(MAP_WIDTH - 1) |->
            IF <<x, y>> \in obstacles THEN OBSTACLE ELSE game_map[y][x]]]

generate_map(clear_count) ==
    UNION { UNION { { [game_map |-> with_obstacles(walled_map(walls), obstacles),
                       key_pos |-> key_pos] :
                      obstacles \in obstacle_samples(walled_map(walls), key_pos,
                                                     clear_count) } :
                    key_pos \in valid_key_positions(walled_map(walls)) } :
            walls \in wall_samples }

----------------------------------------------------------------------------
(* initialize_game: the sessions a fresh start can produce, given the       *)
(* values that survive a restart (clear_count, difficulty).                 *)

oni_spawns == { <<MAP_WIDTH - 2, MAP_HEIGHT - 2>>, <<1, MAP_HEIGHT - 2>> }

possible_trap_positions(game_map, oni_pos, key_pos) ==
    {p \in Interior : game_map[p[2]][p[1]] = FLOOR
                      /\ p \notin {INITIAL_PLAYER_POS, oni_pos, key_pos, EXIT_POS}}

map_trap_choices(difficulty, game_map, oni_pos, key_pos) ==
    IF difficulty = HARD /\ possible_trap_positions(game_map, oni_pos, key_pos) # {}
    THEN possible_trap_positions(game_map, oni_pos, key_pos)
    ELSE {None}

(* initialize_game starting the clear count again from zero.               *)
initialize_game_count_reset(clear_count, difficulty) ==
    UNION { UNION { { [game_map |-> g.game_map,
                       key_pos |-> g.key_pos,
                       player_pos |-> INITIAL_PLAYER_POS,
                       oni_pos |-> oni_pos,
                       has_key |-> FALSE,
                       game_over |-> FALSE,
                       win |-> FALSE,
                       message |-> "intro",
                       turn_count |-> 0,
                       game_started |-> TRUE,
                       win_counted |-> FALSE,
                       save_score_calls |-> <<>>,
                       clear_count |-> 0,
                       difficulty |-> difficulty,
                       oni_elapsed |-> 0,
                       player_trap_pos |-> None,
                       map_trap_pos |-> map_trap_pos,
                       oni_stopped_turns |-> 0,
                       trap_count |-> IF difficulty = HARD
                                      THEN INITIAL_TRAP_COUNT ELSE 0] :
                      map_trap_pos \in map_trap_choices(difficulty, g.game_map,
                                                        oni_pos, g.key_pos) } :
                    oni_pos \in oni_spawns } :
            g \in generate_map(clear_count) }

initialize_game(clear_count, difficulty) ==
    UNION { UNION { { [game_map |-> g.game_map,
                       key_pos |-> g.key_pos,
                       player_pos |-> INITIAL_PLAYER_POS,
                       oni_pos |-> oni_pos,
                       has_key |-> FALSE,
                       game_over |-> FALSE,
                       win |-> FALSE,
                       message |-> "intro",
                       turn_count |-> 0,
                       game_started |-> TRUE,
                       win_counted |-> FALSE,
                       save_score_calls |-> <<>>,
                       clear_count |-> clear_count,
                       difficulty |-> difficulty,
                       oni_elapsed |-> 0,
                       player_trap_pos |-> None,
                       map_trap_pos |-> map_trap_pos,
                       oni_stopped_turns |-> 0,
                       trap_count |-> IF difficulty = HARD
                                      THEN INITIAL_TRAP_COUNT ELSE 0] :
                      map_trap_pos \in map_trap_choices(difficulty, g.game_map,
                                                        oni_pos, g.key_pos) } :
                    oni_pos \in oni_spawns } :
            g \in generate_map(clear_count) }

(* The sessions are the same whenever they are drawn: they are tabulated   *)
(* once per (clear_count, difficulty).                                      *)
new_sessions[clear_count \in 0..MaxClear, difficulty \in Difficulties] ==
    initialize_game(clear_count, difficulty)

----------------------------------------------------------------------------
(* The rules engine.                                                        *)

terminal(s) == s.game_over \/ s.win

cell(s, x, y) == s.game_map[y][x]

(* get_gspread_client(): a client, or None when the credentials cannot be  *)
(* read from st.secrets.                                                    *)
get_gspread_client == secrets

(* save_score(client, name, difficulty, clear_count), recorded in           *)
(* save_score_calls, the calls made since the session was created.  The     *)
(* name is the text input's value, which no function of the game writes.    *)
save_score(s) ==
    [s EXCEPT !.save_score_calls = Append(@, <<s.difficulty, s.clear_count>>)]

(* check_events with the "return" of the capture branch forgotten.          *)
check_events_no_return(s) ==
    LET s1 == IF s.player_pos = s.oni_pos
              THEN [s EXCEPT !.game_over = TRUE, !.message = "caught"]
              ELSE s
    IN  IF s1.key_pos # None /\ s1.player_pos = s1.key_pos
        THEN [s1 EXCEPT !.has_key = TRUE, !.key_pos = None, !.message = "key"]
        ELSE IF s1.player_pos = EXIT_POS /\ s1.has_key
        THEN [s1 EXCEPT !.win = TRUE, !.message = "won",
                        !.clear_count = @ + 1, !.win_counted = TRUE]
        ELSE s1

(* check_events calling save_score whether or not a client was obtained.    *)
check_events_save_without_client(s) ==
    IF s.player_pos = s.oni_pos
    THEN [s EXCEPT !.game_over = TRUE, !.message = "caught"]
    ELSE IF s.key_pos # None /\ s.player_pos = s.key_pos
    THEN [s EXCEPT !.has_key = TRUE, !.key_pos = None, !.message = "key"]
    ELSE IF s.player_pos = EXIT_POS
    THEN IF s.has_key
         THEN IF ~s.win_counted
              THEN save_score([s EXCEPT !.win = TRUE, !.message = "won",
                                        !.clear_count = @ + 1,
                                        !.win_counted = TRUE])
              ELSE [s EXCEPT !.win = TRUE, !.message = "won"]
         ELSE [s EXCEPT !.message = "locked"]
    ELSE s

(* check_events testing the key before the capture.                         *)
check_events_key_first(s) ==
    IF s.key_pos # None /\ s.player_pos = s.key_pos
    THEN [s EXCEPT !.has_key = TRUE, !.key_pos = None, !.message = "key"]
    ELSE IF s.player_pos = s.oni_pos
    THEN [s EXCEPT !.game_over = TRUE, !.message = "caught"]
    ELSE IF s.player_pos = EXIT_POS
    THEN IF s.has_key
         THEN IF ~s.win_counted
              THEN LET counted == [s EXCEPT !.win = TRUE, !.message = "won",
                                            !.clear_count = @ + 1,
                                            !.win_counted = TRUE]
                   IN  IF get_gspread_client THEN save_score(counted)
                       ELSE counted
              ELSE [s EXCEPT !.win = TRUE, !.message = "won"]
         ELSE [s EXCEPT !.message = "locked"]
    ELSE s

(* check_events leaving the key on the map when it is picked up.            *)
check_events_key_stays(s) ==
    IF s.player_pos = s.oni_pos
    THEN [s EXCEPT !.game_over = TRUE, !.message = "caught"]
    ELSE IF s.key_pos # None /\ s.player_pos = s.key_pos
    THEN [s EXCEPT !.has_key = TRUE, !.message = "key"]
    ELSE IF s.player_pos = EXIT_POS
    THEN IF s.has_key
         THEN IF ~s.win_counted
              THEN LET counted == [s EXCEPT !.win = TRUE, !.message = "won",
                                            !.clear_count = @ + 1,
                                            !.win_counted = TRUE]
                   IN  IF get_gspread_client THEN save_score(counted)
                       ELSE counted
              ELSE [s EXCEPT !.win = TRUE, !.message = "won"]
         ELSE [s EXCEPT !.message = "locked"]
    ELSE s

check_events(s) ==
    IF s.player_pos = s.oni_pos
    THEN [s EXCEPT !.game_over = TRUE, !.message = "caught"]
    ELSE IF s.key_pos # None /\ s.player_pos = s.key_pos
    THEN [s EXCEPT !.has_key = TRUE, !.key_pos = None, !.message = "key"]
    ELSE IF s.player_pos = EXIT_POS
    THEN IF s.has_key
         THEN IF ~s.win_counted
              THEN LET counted == [s EXCEPT !.win = TRUE, !.message = "won",
                                            !.clear_count = @ + 1,
                                            !.win_counted = TRUE]
                   IN  IF get_gspread_client THEN save_score(counted)
                       ELSE counted
              ELSE [s EXCEPT !.win = TRUE, !.message = "won"]
         ELSE [s EXCEPT !.message = "locked"]
    ELSE s

(* move_player without the guard on a finished game.                       *)
move_player_unguarded(s, dx, dy) ==
    LET new_px == s.player_pos[1] + dx
        new_py == s.player_pos[2] + dy
    IN  IF cell(s, new_px, new_py) \notin {WALL, OBSTACLE}
        THEN check_events([s EXCEPT !.player_pos = <<new_px, new_py>>,
                                    !.message = ""])
        ELSE s

(* move_player stopped by Wall cells only.                                  *)
move_player_through_obstacles(s, dx, dy) ==
    IF s.game_over \/ s.win THEN s
    ELSE LET new_px == s.player_pos[1] + dx
             new_py == s.player_pos[2] + dy
         IN  IF cell(s, new_px, new_py) \notin {WALL}
             THEN check_events([s EXCEPT !.player_pos = <<new_px, new_py>>,
                                         !.message = ""])
             ELSE s

move_player(s, dx, dy) ==
    IF s.game_over \/ s.win THEN s
    ELSE LET new_px == s.player_pos[1] + dx
             new_py == s.player_pos[2] + dy
         IN  IF cell(s, new_px, new_py) \notin {WALL, OBSTACLE}
             THEN check_events([s EXCEPT !.player_pos = <<new_px, new_py>>,
                                         !.message = ""])
             ELSE s

(* str.lower() on the characters a command string is built from.            *)
lower(c) ==
    CASE c = "L" -> "l"
      [] c = "R" -> "r"
      [] c = "U" -> "u"
      [] c = "D" -> "d"
      [] OTHER -> c

(* handle_bulk_move with "continue" in place of the "break" of a rejected   *)
(* step.                                                                    *)
RECURSIVE handle_bulk_move_past_walls(_, _)
handle_bulk_move_past_walls(s, commands) ==
    IF commands = <<>> THEN s
    ELSE IF s.game_over \/ s.win THEN s
    ELSE LET command == lower(Head(commands))
             dx == IF command = "l" THEN -1 ELSE IF command = "r" THEN 1 ELSE 0
             dy == IF command = "u" THEN -1 ELSE IF command = "d" THEN 1 ELSE 0
         IN  IF command \notin {"l", "r", "u", "d"}
             THEN handle_bulk_move_past_walls(s, Tail(commands))
             ELSE LET new_px == s.player_pos[1] + dx
                      new_py == s.player_pos[2] + dy
                  IN  IF cell(s, new_px, new_py) \notin {WALL, OBSTACLE}
                      THEN handle_bulk_move_past_walls(
                               check_events([s EXCEPT !.player_pos = <<new_px, new_py>>]),
                               Tail(commands))
                      ELSE handle_bulk_move_past_walls(
                               [s EXCEPT !.message = "bulk_wall"], Tail(commands))

RECURSIVE handle_bulk_move(_, _)
handle_bulk_move(s, commands) ==
    IF commands = <<>> THEN s
    ELSE IF s.game_over \/ s.win THEN s
    ELSE LET command == lower(Head(commands))
             dx == IF command = "l" THEN -1 ELSE IF command = "r" THEN 1 ELSE 0
             dy == IF command = "u" THEN -1 ELSE IF command = "d" THEN 1 ELSE 0
         IN  IF command \notin {"l", "r", "u", "d"}
             THEN handle_bulk_move(s, Tail(commands))
             ELSE LET new_px == s.player_pos[1] + dx
                      new_py == s.player_pos[2] + dy
                  IN  IF cell(s, new_px, new_py) \notin {WALL, OBSTACLE}
                      THEN handle_bulk_move(
                               check_events([s EXCEPT !.player_pos = <<new_px, new_py>>]),
                               Tail(commands))
                      ELSE [s EXCEPT !.message = "bulk_wall"]

(* _move_oni_one_step trying the horizontal axis first on equal distances.  *)
_move_oni_one_step_horizontal_on_tie(s) ==
    LET px == s.player_pos[1]
        py == s.player_pos[2]
        ox == s.oni_pos[1]
        oy == s.oni_pos[2]
        dist_x == px - ox
        dist_y == py - oy
        impassable == {WALL}
        right == dist_x > 0 /\ cell(s, ox + 1, oy) \notin impassable
        left == dist_x < 0 /\ cell(s, ox - 1, oy) \notin impassable
        down == dist_y > 0 /\ cell(s, ox, oy + 1) \notin impassable
        up == dist_y < 0 /\ cell(s, ox, oy - 1) \notin impassable
        new_pos ==
            IF Abs(dist_x) >= Abs(dist_y)
            THEN IF right THEN <<ox + 1, oy>>
                 ELSE IF left THEN <<ox - 1, oy>>
                 ELSE IF down THEN <<ox, oy + 1>>
                 ELSE IF up THEN <<ox, oy - 1>>
                 ELSE <<ox, oy>>
            ELSE IF down THEN <<ox, oy + 1>>
                 ELSE IF up THEN <<ox, oy - 1>>
                 ELSE IF right THEN <<ox + 1, oy>>
                 ELSE IF left THEN <<ox - 1, oy>>
                 ELSE <<ox, oy>>
    IN  [s EXCEPT !.oni_pos = new_pos]

_move_oni_one_step(s) ==
    LET px == s.player_pos[1]
        py == s.player_pos[2]
        ox == s.oni_pos[1]
        oy == s.oni_pos[2]
        dist_x == px - ox
        dist_y == py - oy
        impassable == {WALL}
        right == dist_x > 0 /\ cell(s, ox + 1, oy) \notin impassable
        left == dist_x < 0 /\ cell(s, ox - 1, oy) \notin impassable
        down == dist_y > 0 /\ cell(s, ox, oy + 1) \notin impassable
        up == dist_y < 0 /\ cell(s, ox, oy - 1) \notin impassable
        new_pos ==
            IF Abs(dist_x) > Abs(dist_y)
            THEN IF right THEN <<ox + 1, oy>>
                 ELSE IF left THEN <<ox - 1, oy>>
                 ELSE IF down THEN <<ox, oy + 1>>
                 ELSE IF up THEN <<ox, oy - 1>>
                 ELSE <<ox, oy>>
            ELSE IF down THEN <<ox, oy + 1>>
                 ELSE IF up THEN <<ox, oy - 1>>
                 ELSE IF right THEN <<ox + 1, oy>>
                 ELSE IF left THEN <<ox - 1, oy>>
                 ELSE <<ox, oy>>
    IN  [s EXCEPT !.oni_pos = new_pos]

check_oni_trap_interaction(s) ==
    IF s.player_trap_pos # None /\ s.oni_pos = s.player_trap_pos
    THEN [s EXCEPT !.player_trap_pos = None,
                   !.oni_stopped_turns = STUN_TURNS, !.message = "trapped"]
    ELSE IF s.map_trap_pos # None /\ s.oni_pos = s.map_trap_pos
    THEN [s EXCEPT !.map_trap_pos = None,
                   !.oni_stopped_turns = STUN_TURNS, !.message = "trapped"]
    ELSE s

(* move_oni letting the enemy step on the call that ends the stun.          *)
move_oni_free_step(s) ==
    IF s.oni_stopped_turns > 1
    THEN [s EXCEPT !.oni_stopped_turns = @ - 1, !.message = "stunned"]
    ELSE check_oni_trap_interaction(
             _move_oni_one_step([s EXCEPT !.oni_stopped_turns = 0]))

(* move_oni taking a single step on every difficulty.                      *)
move_oni_single_step(s) ==
    IF s.oni_stopped_turns > 0
    THEN [s EXCEPT !.oni_stopped_turns = @ - 1,
                   !.message = IF s.oni_stopped_turns - 1 > 0
                               THEN "stunned" ELSE "free"]
    ELSE check_oni_trap_interaction(_move_oni_one_step(s))

move_oni(s) ==
    IF s.oni_stopped_turns > 0
    THEN [s EXCEPT !.oni_stopped_turns = @ - 1,
                   !.message = IF s.oni_stopped_turns - 1 > 0
                               THEN "stunned" ELSE "free"]
    ELSE IF s.difficulty = EASY \/ s.difficulty = NORMAL
    THEN check_oni_trap_interaction(_move_oni_one_step(s))
    ELSE IF s.difficulty = HARD
    THEN LET s1 == _move_oni_one_step(s)
         IN  IF s1.player_pos = s1.oni_pos
             THEN check_events(s1)
             ELSE check_oni_trap_interaction(_move_oni_one_step(s1))
    ELSE check_oni_trap_interaction(s)

interval(s) ==
    IF s.difficulty = EASY THEN INTERVAL_EASY
    ELSE IF s.difficulty = HARD THEN INTERVAL_HARD
    ELSE INTERVAL_NORMAL

(* oni_elapsed is time.time() - oni_last_move_time at the latest reading of *)
(* the clock; dt is the time gone by since that reading.  Every value       *)
(* above the longest interval behaves alike, so the reading is capped.      *)
ElapsedCap == INTERVAL_EASY + 1

(* move_oni is called by this run of automatic_oni_move.                    *)
oni_due(s, dt) ==
    /\ ~(s.game_over \/ s.win)
    /\ Min(s.oni_elapsed + dt, ElapsedCap) > interval(s)

(* automatic_oni_move moving the enemy as soon as the interval is reached.  *)
automatic_oni_move_at_interval(s, dt) ==
    IF s.game_over \/ s.win THEN s
    ELSE LET now == [s EXCEPT !.oni_elapsed = Min(@ + dt, ElapsedCap)]
         IN  IF now.oni_elapsed >= interval(now)
             THEN [check_events(move_oni(now)) EXCEPT !.oni_elapsed = 0]
             ELSE now

automatic_oni_move(s, dt) ==
    IF s.game_over \/ s.win THEN s
    ELSE LET now == [s EXCEPT !.oni_elapsed = Min(@ + dt, ElapsedCap)]
         IN  IF now.oni_elapsed > interval(now)
             THEN [check_events(move_oni(now)) EXCEPT !.oni_elapsed = 0]
             ELSE now

(* force_game_reset pops 'game_started'.  The next statement executed is   *)
(* initialize_game, which overwrites every other key of the session before *)
(* any of them is read: only the keys it keeps are carried along.          *)
force_game_reset(s) ==
    [game_started |-> FALSE, clear_count |-> s.clear_count,
     difficulty |-> s.difficulty]

(* The body of the trap button.                                             *)
place_trap(s) ==
    [s EXCEPT !.player_trap_pos = s.player_pos,
              !.trap_count = @ - 1,
              !.message = "trap_placed"]

trap_button_disabled(s) ==
    s.trap_count <= 0 \/ s.player_trap_pos # None \/ s.game_over \/ s.win

----------------------------------------------------------------------------
(* Inputs.                                                                  *)

Delays == {0, TimeStep}

Directions == { <<-1, 0>>, <<0, -1>>, <<0, 1>>, <<1, 0>> }

CommandChars == {"l", "r", "u", "d", "R", "x"}

RECURSIVE strings_upto(_)
strings_upto(n) ==
    IF n = 0 THEN {<<>>}
    ELSE LET shorter == strings_upto(n - 1)
         IN  shorter \cup {Append(w, c) : w \in shorter, c \in CommandChars}

CommandStrings == strings_upto(MaxCmdLen)

----------------------------------------------------------------------------
(* The script: initialize_game(); automatic_oni_move(); the widgets.        *)

(* Before the first run st.session_state is empty; initialize_game fills   *)
(* in clear_count 0 and the Normal difficulty.                              *)
Init ==
    /\ session_state = [game_started |-> FALSE, clear_count |-> 0,
                        difficulty |-> NORMAL]
    /\ pc = "top"
    /\ op = "reset"
    /\ secrets \in BOOLEAN

(* Top of a run without 'game_started': initialize_game builds the session; *)
(* automatic_oni_move, right after it, finds no time gone by.               *)
Initialize ==
    /\ secrets' = secrets
    /\ pc = "top"
    /\ ~session_state.game_started
    /\ session_state' \in new_sessions[session_state.clear_count,
                                        session_state.difficulty]
    /\ op' = "init"
    /\ pc' = "widgets"

(* Top of a run of a started game, some time after the previous run.        *)
Tick ==
    /\ secrets' = secrets
    /\ pc = "top"
    /\ session_state.game_started
    /\ \E dt \in Delays :
        /\ session_state' = automatic_oni_move(session_state, dt)
        /\ op' = IF oni_due(session_state, dt) THEN "tick_move" ELSE "tick_wait"
    /\ pc' = "widgets"

(* A button drawn enabled by the previous run can have been clicked even if  *)
(* this run's automatic_oni_move has just ended the game.                    *)
clickable == ~terminal(session_state) \/ op = "tick_move"

MoveButton ==
    /\ secrets' = secrets
    /\ pc = "widgets"
    /\ clickable
    /\ \E d \in Directions :
        LET blocked == cell(session_state, session_state.player_pos[1] + d[1],
                            session_state.player_pos[2] + d[2]) \in {WALL, OBSTACLE}
        IN  /\ session_state' = move_player(session_state, d[1], d[2])
            /\ op' = IF terminal(session_state) THEN "move_ignored"
                     ELSE IF blocked THEN "move_blocked" ELSE "move"
    /\ pc' = "top"

BulkMoveButton ==
    /\ secrets' = secrets
    /\ pc = "widgets"
    /\ \E commands \in CommandStrings :
        session_state' = handle_bulk_move(session_state, commands)
    /\ op' = "bulk"
    /\ pc' = "top"

(* The button exists on Hard only.  It fires when this run draws it         *)
(* enabled; when the previous run drew it enabled and this run's            *)
(* automatic_oni_move has just ended the game, whether the click still      *)
(* counts is the framework's choice, and both outcomes are kept.            *)
TrapButton ==
    /\ secrets' = secrets
    /\ pc = "widgets"
    /\ session_state.difficulty = HARD
    /\ \/ ~trap_button_disabled(session_state)
       \/ /\ op = "tick_move"
          /\ ~trap_button_disabled([session_state EXCEPT !.game_over = FALSE])
    /\ session_state' = place_trap(session_state)
    /\ op' = "trap"
    /\ pc' = "top"

(* restart_game: force_game_reset, then st.rerun().                         *)
RestartButton ==
    /\ secrets' = secrets
    /\ pc = "widgets"
    /\ session_state.clear_count < MaxClear
    /\ session_state' = force_game_reset(session_state)
    /\ op' = "restart"
    /\ pc' = "top"

(* The selectbox stores the chosen difficulty and its callback              *)
(* force_game_reset runs, both before the script.                           *)
DifficultySelect ==
    /\ secrets' = secrets
    /\ pc = "top"
    /\ session_state.game_started
    /\ session_state.turn_count <= 0
    /\ session_state.clear_count < MaxClear
    /\ \E d \in Difficulties \ {session_state.difficulty} :
        session_state' = force_game_reset([session_state EXCEPT !.difficulty = d])
    /\ op' = "difficulty"
    /\ pc' = "top"

(* No widget fired: sleep 0.1 s and rerun while the game is on.             *)
Rerun ==
    /\ secrets' = secrets
    /\ pc = "widgets"
    /\ ~(session_state.game_over \/ session_state.win)
    /\ session_state' = session_state
    /\ op' = "rerun"
    /\ pc' = "top"

Next ==
    \/ Initialize
    \/ Tick
    \/ MoveButton
    \/ BulkMoveButton
    \/ TrapButton
    \/ RestartButton
    \/ DifficultySelect
    \/ Rerun

Spec == Init /\ [][Next]_vars

----------------------------------------------------------------------------
(* Map generation on its own: generate_map and initialize_game applied to   *)
(* every clear count up to MaxClear and every difficulty.                   *)

InitGen ==
    /\ \E c \in 0..MaxClear, d \in Difficulties :
        session_state = [game_started |-> FALSE, clear_count |-> c, difficulty |-> d]
    /\ pc = "top"
    /\ op = "reset"
    /\ secrets \in BOOLEAN

(* A generated session is dropped for another clear count and difficulty.   *)
Regenerate ==
    /\ secrets' = secrets
    /\ pc = "widgets"
    /\ \E c \in 0..MaxClear, d \in Difficulties :
        session_state' = force_game_reset([session_state EXCEPT !.clear_count = c,
                                                                !.difficulty = d])
    /\ op' = "restart"
    /\ pc' = "top"

NextGen == Initialize \/ Regenerate

SpecGen == InitGen /\ [][NextGen]_vars

----------------------------------------------------------------------------
(* The enemy's functions on their own: _move_oni_one_step and move_oni      *)
(* applied to bordered grids with up to NUM_WALLS Wall and MAX_OBSTACLES    *)
(* Obstacle cells anywhere inside, the grid without any among them, the     *)
(* player on any free cell and the enemy on any cell inside the border.     *)

probe_session(game_map, player_pos, oni_pos, difficulty, oni_stopped_turns) ==
    [game_map |-> game_map,
     key_pos |-> None,
     player_pos |-> player_pos,
     oni_pos |-> oni_pos,
     has_key |-> TRUE,
     game_over |-> FALSE,
     win |-> FALSE,
     message |-> "",
     turn_count |-> 0,
     game_started |-> TRUE,
     win_counted |-> FALSE,
     save_score_calls |-> <<>>,
     clear_count |-> 0,
     difficulty |-> difficulty,
     oni_elapsed |-> 0,
     player_trap_pos |-> None,
     map_trap_pos |-> None,
     oni_stopped_turns |-> oni_stopped_turns,
     trap_count |-> 0]

InitOni ==
    /\ \E walls \in {W \in SUBSET Interior : Cardinality(W) <= NUM_WALLS} :
       \E obstacles \in {O \in SUBSET (Interior \ walls) :
                           Cardinality(O) <= MAX_OBSTACLES} :
       \E player_pos \in Interior \ (walls \cup obstacles), oni_pos \in Interior,
          difficulty \in Difficulties, oni_stopped_turns \in {0, 1} :
            session_state = probe_session(with_obstacles(walled_map(walls), obstacles),
                                          player_pos, oni_pos, difficulty,
                                          oni_stopped_turns)
    /\ pc = "probe"
    /\ op = "probe"
    /\ secrets = TRUE

(* One call of _move_oni_one_step.                                          *)
StepOni ==
    /\ secrets' = secrets
    /\ pc = "probe"
    /\ session_state' = _move_oni_one_step(session_state)
    /\ op' = "one_step"
    /\ pc' = "done"

(* One call of move_oni.                                                    *)
MoveOni ==
    /\ secrets' = secrets
    /\ pc = "probe"
    /\ session_state' = move_oni(session_state)
    /\ op' = "move_oni"
    /\ pc' = "done"

NextOni == StepOni \/ MoveOni

SpecOni == InitOni /\ [][NextOni]_vars

----------------------------------------------------------------------------
(* Vocabulary of the properties.                                            *)

(* The operation that led to this state created the session.                *)
fresh_session(o) == o = "init"

(* The step stays within one session.                                       *)
same_session == session_state.game_started /\ session_state'.game_started

started == session_state.game_started

(* The operation was a run of automatic_oni_move.                           *)
is_tick(o) == o \in {"tick_move", "tick_wait"}

(* The operation was a player move, a bulk move or a trap placement.        *)
is_player_op(o) == o \in {"move", "move_blocked", "move_ignored", "bulk", "trap"}

----------------------------------------------------------------------------
(* C1: in one session game_over and win are never both true, and once one   *)
(* of them is true it stays true and the other stays false until a restart  *)
(* (or a change of difficulty) replaces the session.                        *)
C1_OneOutcomeForGood ==
    /\ [](started => ~(session_state.game_over /\ session_state.win))
    /\ [][ same_session =>
             /\ (session_state.game_over =>
                    session_state'.game_over /\ ~session_state'.win)
             /\ (session_state.win =>
                    session_state'.win /\ ~session_state'.game_over) ]_vars

(* The game has been won and a later run of automatic_oni_move left it won. *)
C1_Witness == started /\ session_state.win /\ ~session_state.game_over /\ op = "tick_wait"

(* C2: once the game is lost or won, no player move, bulk move, enemy tick  *)
(* or trap placement changes the player position, the enemy position or the *)
(* outcome.                                                                 *)
C2_TerminalFreezes ==
    [][ ((is_tick(op') \/ is_player_op(op')) /\ terminal(session_state)) =>
          /\ session_state'.player_pos = session_state.player_pos
          /\ session_state'.oni_pos = session_state.oni_pos
          /\ session_state'.game_over = session_state.game_over
          /\ session_state'.win = session_state.win ]_vars

(* move_player has been called on a finished game.                          *)
C2_Witness == op = "move_ignored" /\ terminal(session_state)

(* C3: the enemy never stands on a Wall cell, from the creation of the      *)
(* session on.                                                              *)
C3_EnemyNeverOnWall ==
    started =>
        cell(session_state, session_state.oni_pos[1], session_state.oni_pos[2]) # WALL

----------------------------------------------------------------------------
(* Trap vocabulary.                                                         *)

active_traps(s) == {s.player_trap_pos, s.map_trap_pos} \ {None}

(* The trap lying on cell c before the step is gone after it.               *)
consumed(s, t, c) ==
    \/ s.player_trap_pos = c /\ t.player_trap_pos = None
    \/ s.player_trap_pos # c /\ s.map_trap_pos = c /\ t.map_trap_pos = None

(* The enemy step policy finds a step to take.                              *)
step_exists(s) == _move_oni_one_step(s).oni_pos # s.oni_pos

(* On Hard the first sub-step lands on the player: move_oni returns from    *)
(* there, before its trap check.                                            *)
caught_midway(s) ==
    s.difficulty = HARD /\ _move_oni_one_step(s).oni_pos = s.player_pos

(* A call of move_oni on a free enemy ends on a cell with an active trap.   *)
lands_on_trap(s, t) ==
    /\ s.oni_stopped_turns = 0
    /\ ~caught_midway(s)
    /\ t.oni_pos \in active_traps(s)

(* C4, as claimed: when a moveEnemy() call puts the enemy on an active      *)
(* trap, the trap is removed and stunned-turns becomes 3; the next two      *)
(* calls leave the enemy where it is and the third call moves it, when the  *)
(* step policy has a step to take.                                          *)
C4_StunnedTwoCalls ==
    [][ op' = "tick_move" =>
          /\ lands_on_trap(session_state, session_state') =>
                /\ consumed(session_state, session_state', session_state'.oni_pos)
                /\ session_state'.oni_stopped_turns = STUN_TURNS
          /\ session_state.oni_stopped_turns \in {STUN_TURNS, STUN_TURNS - 1} =>
                session_state'.oni_pos = session_state.oni_pos
          /\ (session_state.oni_stopped_turns = STUN_TURNS - 2
                /\ step_exists(session_state)) =>
                session_state'.oni_pos # session_state.oni_pos ]_vars

(* C4, amended: the trap check of a moveEnemy() call removes the trap under *)
(* the enemy and sets stunned-turns to 3; each of the next three calls only *)
(* lowers stunned-turns by one and leaves the enemy where it is; a call     *)
(* with stunned-turns 0, so the fourth after the trigger, moves the enemy   *)
(* when the step policy has a step to take; nothing else changes            *)
(* stunned-turns or the enemy position within a session.                    *)
C4_StunnedThreeCalls ==
    [][ /\ op' = "tick_move" =>
            /\ lands_on_trap(session_state, session_state') =>
                  /\ consumed(session_state, session_state', session_state'.oni_pos)
                  /\ session_state'.oni_stopped_turns = STUN_TURNS
            /\ session_state.oni_stopped_turns > 0 =>
                  /\ session_state'.oni_pos = session_state.oni_pos
                  /\ session_state'.oni_stopped_turns
                         = session_state.oni_stopped_turns - 1
            /\ (session_state.oni_stopped_turns = 0
                  /\ step_exists(session_state)) =>
                  session_state'.oni_pos # session_state.oni_pos
            /\ (session_state.oni_stopped_turns = 0
                  /\ session_state'.oni_pos \notin active_traps(session_state)) =>
                  session_state'.oni_stopped_turns = 0
        /\ (op' # "tick_move" /\ same_session) =>
            /\ session_state'.oni_stopped_turns = session_state.oni_stopped_turns
            /\ session_state'.oni_pos = session_state.oni_pos ]_vars

(* The third call after a trigger has run: the enemy has just broken free   *)
(* without having moved.                                                    *)
C4_Witness ==
    /\ op = "tick_move"
    /\ session_state.oni_stopped_turns = 0
    /\ session_state.message = "free"

(* C5: on Hard the enemy never ends its first sub-step on an active trap    *)
(* and then goes on to a further cell with that trap still active.          *)
C5_NoStepOverTrap ==
    [][ (op' = "tick_move" /\ session_state.difficulty = HARD
           /\ session_state.oni_stopped_turns = 0) =>
          LET mid == _move_oni_one_step(session_state).oni_pos
          IN  ~(/\ mid # session_state.oni_pos
                /\ mid \in active_traps(session_state)
                /\ session_state'.oni_pos # mid
                /\ mid \in active_traps(session_state')) ]_vars

----------------------------------------------------------------------------
(* Reachability, computed as a closure for the properties of the maps.      *)

Cells == {<<x, y>> : x \in 0..(MAP_WIDTH - 1), y \in 0..(MAP_HEIGHT - 1)}

adjacent(p, q) == Abs(p[1] - q[1]) + Abs(p[2] - q[2]) = 1

RECURSIVE closure(_, _, _)
closure(game_map, blocking, region) ==
    LET grown == region \cup
                 {q \in Cells : /\ game_map[q[2]][q[1]] \notin blocking
                                /\ \E p \in region : adjacent(p, q)}
    IN  IF grown = region THEN region ELSE closure(game_map, blocking, grown)

connected(game_map, blocking, from, to) ==
    to \in closure(game_map, blocking, {from})

obstacle_cells(s) == {p \in Cells : cell(s, p[1], p[2]) = OBSTACLE}

(* C6: in every generated map the player, who enters neither Wall nor       *)
(* Obstacle, has a path from the start to the key and from the key to the   *)
(* exit.                                                                    *)
C6_PlayerCanSolve ==
    fresh_session(op) =>
        /\ connected(session_state.game_map, {WALL, OBSTACLE},
                     INITIAL_PLAYER_POS, session_state.key_pos)
        /\ connected(session_state.game_map, {WALL, OBSTACLE},
                     session_state.key_pos, EXIT_POS)

(* C7: in every generated map a path avoiding Wall cells (Obstacle cells    *)
(* count as passable) leads from the start to the key and from the key to   *)
(* the exit.                                                                *)
C7_WallFreePaths ==
    fresh_session(op) =>
        /\ session_state.key_pos # None
        /\ connected(session_state.game_map, {WALL},
                     INITIAL_PLAYER_POS, session_state.key_pos)
        /\ connected(session_state.game_map, {WALL},
                     session_state.key_pos, EXIT_POS)

(* A generated map whose obstacle cuts the player off from the key, while   *)
(* the wall-free path exists.                                               *)
C7_Witness ==
    /\ fresh_session(op)
    /\ obstacle_cells(session_state) # {}
    /\ ~connected(session_state.game_map, {WALL, OBSTACLE},
                  INITIAL_PLAYER_POS, session_state.key_pos)

(* C8: in every generated map the start cell and the exit cell are Floor    *)
(* and the key lies on neither of them.                                     *)
C8_StartAndExitKept ==
    fresh_session(op) =>
        /\ cell(session_state, INITIAL_PLAYER_POS[1], INITIAL_PLAYER_POS[2]) = FLOOR
        /\ cell(session_state, EXIT_POS[1], EXIT_POS[2]) = FLOOR
        /\ session_state.key_pos \in Interior \ {INITIAL_PLAYER_POS, EXIT_POS}

(* A generated map on which walls and obstacles have both been placed.      *)
C8_Witness ==
    /\ fresh_session(op)
    /\ session_state.clear_count > 0
    /\ Cardinality(obstacle_cells(session_state)) = Min(session_state.clear_count,
                                                        MAX_OBSTACLES)
    /\ Cardinality(obstacle_cells(session_state)) > 0

----------------------------------------------------------------------------
(* C9: a move_player call whose target cell is Wall or Obstacle leaves the  *)
(* player position, the enemy position, the key state and the outcome as    *)
(* they were.                                                               *)
C9_BlockedMoveChangesNothing ==
    [][ op' = "move_blocked" =>
          /\ session_state'.player_pos = session_state.player_pos
          /\ session_state'.oni_pos = session_state.oni_pos
          /\ session_state'.has_key = session_state.has_key
          /\ session_state'.key_pos = session_state.key_pos
          /\ session_state'.game_over = session_state.game_over
          /\ session_state'.win = session_state.win ]_vars

(* A move into a Wall or Obstacle cell has been attempted during a game     *)
(* that has obstacles.                                                      *)
C9_Witness ==
    /\ op = "move_blocked"
    /\ obstacle_cells(session_state) # {}
    /\ session_state.has_key

(* C10: the clear count grows by exactly one on the step that wins a        *)
(* session and is left alone by every other step, restarts included; a new  *)
(* session holds min(clear count, MAX_OBSTACLES) obstacles.                 *)
C10_ClearCountOnlyOnWin ==
    /\ [](fresh_session(op) =>
            Cardinality(obstacle_cells(session_state))
                = Min(session_state.clear_count, MAX_OBSTACLES))
    /\ [][ IF same_session /\ ~session_state.win /\ session_state'.win
           THEN session_state'.clear_count = session_state.clear_count + 1
           ELSE session_state'.clear_count = session_state.clear_count ]_vars

(* The session built after a win and a restart holds the clear count of    *)
(* the session before it.                                                   *)
C10_Witness ==
    /\ op = "init"
    /\ session_state.clear_count = 1

----------------------------------------------------------------------------
(* The step takes the outcome of the session from in progress to won.       *)
win_transition == same_session /\ ~session_state.win /\ session_state'.win

(* C11, as claimed: every step that takes a session from in progress to won *)
(* calls save_score exactly once, and no other step of the session calls    *)
(* it; a new session starts with no call made.                              *)
C11_SubmitOncePerWin ==
    /\ [](fresh_session(op) => session_state.save_score_calls = <<>>)
    /\ [][ same_session =>
             Len(session_state'.save_score_calls)
                 = Len(session_state.save_score_calls)
                   + (IF win_transition THEN 1 ELSE 0) ]_vars

(* C11, amended: a step that takes a session from in progress to won calls  *)
(* save_score exactly once, with the difficulty and the clear count just    *)
(* incremented, when get_gspread_client() returns a client, and does not    *)
(* call it when no client is returned; no other step calls it.              *)
C11_SubmitOncePerWinWithClient ==
    /\ [](fresh_session(op) => session_state.save_score_calls = <<>>)
    /\ [][ same_session =>
             session_state'.save_score_calls
                 = IF win_transition /\ secrets
                   THEN Append(session_state.save_score_calls,
                               <<session_state.difficulty,
                                 session_state.clear_count + 1>>)
                   ELSE session_state.save_score_calls ]_vars

(* A second session has been won with a client at hand: its score, and      *)
(* only its score, has been saved in it.                                    *)
C11_Witness ==
    /\ started
    /\ secrets
    /\ session_state.win
    /\ session_state.clear_count = 2
    /\ session_state.save_score_calls = << <<session_state.difficulty, 2>> >>

----------------------------------------------------------------------------
(* Reference reading of a bulk move, by positions.                          *)

(* The step of a direction code, either case; <<0, 0>> for any other code.  *)
code_step(c) ==
    CASE c \in {"l", "L"} -> <<-1, 0>>
      [] c \in {"r", "R"} -> <<1, 0>>
      [] c \in {"u", "U"} -> <<0, -1>>
      [] c \in {"d", "D"} -> <<0, 1>>
      [] OTHER -> <<0, 0>>

(* The steps of the valid codes of a command string, in order.              *)
valid_steps(commands) ==
    LET all == [i \in 1..Len(commands) |-> code_step(commands[i])]
    IN  SelectSeq(all, LAMBDA d : d # <<0, 0>>)

(* The cell reached from p by the first k steps.                            *)
RECURSIVE cell_after(_, _, _)
cell_after(p, steps, k) ==
    IF k = 0 THEN p
    ELSE LET q == cell_after(p, steps, k - 1)
         IN  <<q[1] + steps[k][1], q[2] + steps[k][2]>>

(* The outcome is terminal once the first k steps are taken: the game was   *)
(* over before, or one of the cells entered holds the enemy, or is the exit *)
(* entered with the key held or picked up on the way.                       *)
terminal_after(s, steps, k) ==
    \/ terminal(s)
    \/ \E j \in 1..k :
        LET q == cell_after(s.player_pos, steps, j)
        IN  \/ q = s.oni_pos
            \/ /\ q = EXIT_POS
               /\ \/ s.has_key
                  \/ \E i \in 1..(j - 1) :
                        cell_after(s.player_pos, steps, i) = s.key_pos

(* Step k + 1 exists and its target cell is Wall or Obstacle.               *)
rejected_after(s, steps, k) ==
    /\ k < Len(steps)
    /\ LET q == cell_after(s.player_pos, steps, k + 1)
       IN  s.game_map[q[2]][q[1]] \in {WALL, OBSTACLE}

(* The number of steps taken before the sequence stops.                     *)
RECURSIVE steps_taken(_, _, _)
steps_taken(s, steps, k) ==
    IF k = Len(steps) \/ terminal_after(s, steps, k) \/ rejected_after(s, steps, k)
    THEN k
    ELSE steps_taken(s, steps, k + 1)

(* The bulk move of a command string from session s obeys the reference:    *)
(* the player ends on the last cell entered, a rejected step leaves the     *)
(* wall-collision message, the outcome and the key are those of the cells   *)
(* entered, and the enemy is where it was.                                  *)
bulk_as_reference(s, commands) ==
    LET t == handle_bulk_move(s, commands)
        steps == valid_steps(commands)
        n == steps_taken(s, steps, 0)
    IN  /\ t.player_pos = cell_after(s.player_pos, steps, n)
        /\ (~terminal_after(s, steps, n) /\ rejected_after(s, steps, n)) =>
              t.message = "bulk_wall"
        /\ terminal(t) = terminal_after(s, steps, n)
        /\ t.has_key = (\/ s.has_key
                        \/ \E i \in 1..n :
                             /\ cell_after(s.player_pos, steps, i) = s.key_pos
                             /\ ~terminal_after(s, steps, i))
        /\ t.oni_pos = s.oni_pos

(* C12: wherever the bulk-move button can be pressed, a bulk move applies   *)
(* the valid direction codes of its command string in order, either case,   *)
(* skipping the other codes, and stops at the first step into a Wall or     *)
(* Obstacle cell or as soon as the game is lost or won: the player ends on  *)
(* the last cell entered, a rejected step leaves the wall-collision         *)
(* message, and no later code is applied.                                   *)
C12_BulkMoveStopsAtWall ==
    (started /\ pc = "widgets") =>
        \A commands \in CommandStrings : bulk_as_reference(session_state, commands)

(* A bulk move has entered a cell and was then stopped by a Wall or an      *)
(* Obstacle: the player stands one cell further with the collision message. *)
C12_Witness ==
    /\ op = "bulk"
    /\ session_state.message = "bulk_wall"
    /\ session_state.player_pos # INITIAL_PLAYER_POS
    /\ session_state.has_key
    /\ ~terminal(session_state)

----------------------------------------------------------------------------
(* C13: once the player has moved in a session (the player is off the       *)
(* start cell, so at least one move was made), no step changes the          *)
(* difficulty and no selection of another difficulty is accepted.           *)
C13_DifficultyLockedAfterMove ==
    [][ (started /\ session_state.player_pos # INITIAL_PLAYER_POS) =>
          /\ session_state'.difficulty = session_state.difficulty
          /\ op' # "difficulty" ]_vars

----------------------------------------------------------------------------
(* C14: a trap is placed only on Hard, only while the game is neither lost  *)
(* nor won, only with a placement credit left and no player trap active;    *)
(* the placement puts the trap on the player's cell and takes one credit.   *)
(* The credit is never negative, and nothing but a placement gives the      *)
(* session a player trap.                                                   *)
C14_TrapPlacementGuarded ==
    /\ [](started => session_state.trap_count \in 0..INITIAL_TRAP_COUNT)
    /\ [][ op' = "trap" =>
             /\ session_state.difficulty = HARD
             /\ ~terminal(session_state)
             /\ session_state.trap_count > 0
             /\ session_state.player_trap_pos = None
             /\ session_state'.player_trap_pos = session_state.player_pos
             /\ session_state'.trap_count = session_state.trap_count - 1 ]_vars
    /\ [][ (same_session /\ op' # "trap") =>
             /\ session_state'.trap_count = session_state.trap_count
             /\ session_state'.player_trap_pos \in {session_state.player_trap_pos, None} ]_vars

----------------------------------------------------------------------------
(* Distance vocabulary.                                                     *)

manhattan(s) ==
    Abs(s.player_pos[1] - s.oni_pos[1]) + Abs(s.player_pos[2] - s.oni_pos[2])

(* No Wall cell inside the border.                                          *)
open_grid(s) == \A p \in Interior : cell(s, p[1], p[2]) # WALL

(* C15, as claimed: on a bordered grid without interior walls, with the     *)
(* enemy free and away from the player, one move_oni call lowers the        *)
(* Manhattan distance between enemy and player by exactly 1; and no enemy   *)
(* step on any grid raises that distance.                                   *)
C15_OneCloserPerCall ==
    [][ /\ (op' = "move_oni" /\ open_grid(session_state)
              /\ session_state.oni_pos # session_state.player_pos
              /\ session_state.oni_stopped_turns = 0) =>
              manhattan(session_state') = manhattan(session_state) - 1
        /\ op' \in {"one_step", "move_oni"} =>
              manhattan(session_state') <= manhattan(session_state) ]_vars

(* C15, amended: on a bordered grid without interior walls, with the enemy  *)
(* free and away from the player, one move_oni call lowers the Manhattan    *)
(* distance by exactly 1 on Easy and Normal and by min(2, distance) on      *)
(* Hard; one step of the enemy lowers it by exactly 1; and no enemy step    *)
(* or move_oni call on any grid raises the distance.                        *)
C15_CloserByDifficulty ==
    [][ /\ (op' = "move_oni" /\ open_grid(session_state)
              /\ session_state.oni_pos # session_state.player_pos
              /\ session_state.oni_stopped_turns = 0) =>
              manhattan(session_state')
                  = manhattan(session_state)
                    - (IF session_state.difficulty = HARD
                       THEN Min(2, manhattan(session_state)) ELSE 1)
        /\ (op' = "one_step" /\ open_grid(session_state)
              /\ session_state.oni_pos # session_state.player_pos) =>
              manhattan(session_state') = manhattan(session_state) - 1
        /\ op' \in {"one_step", "move_oni"} =>
              manhattan(session_state') <= manhattan(session_state) ]_vars

(* A Hard move_oni call on a grid without interior walls has brought the    *)
(* enemy two cells closer to a player it has not reached.                   *)
C15_Witness ==
    /\ op = "move_oni"
    /\ open_grid(session_state)
    /\ session_state.difficulty = HARD
    /\ session_state.message = ""
    /\ manhattan(session_state) = MAP_WIDTH - 5
    /\ session_state.player_pos = EXIT_POS
    /\ session_state.oni_pos[2] = 1

----------------------------------------------------------------------------
(* The outcome and the key are the same before and after the step.          *)
events_unchanged ==
    /\ session_state'.game_over = session_state.game_over
    /\ session_state'.win = session_state.win
    /\ session_state'.has_key = session_state.has_key
    /\ session_state'.key_pos = session_state.key_pos

(* C16: the check_events call of an accepted move or of an enemy move takes *)
(* one branch at most, in the order capture, key, exit: with player and     *)
(* enemy on one cell the game is lost and, in that call, the key is not     *)
(* picked up and the game is not won, even on the key cell or on the exit   *)
(* with the key held; otherwise on the key cell the key is picked up and    *)
(* nothing else; otherwise on the exit with the key held the game is won    *)
(* and nothing else.                                                        *)
C16_OneBranchPerCall ==
    [][ /\ op' = "move" =>
              LET target == session_state'.player_pos
              IN  IF target = session_state.oni_pos
                  THEN /\ session_state'.game_over /\ ~session_state'.win
                       /\ session_state'.has_key = session_state.has_key
                       /\ session_state'.key_pos = session_state.key_pos
                  ELSE IF session_state.key_pos # None /\ target = session_state.key_pos
                  THEN /\ session_state'.has_key /\ session_state'.key_pos = None
                       /\ ~session_state'.game_over /\ ~session_state'.win
                  ELSE IF target = EXIT_POS /\ session_state.has_key
                  THEN /\ session_state'.win /\ ~session_state'.game_over
                       /\ session_state'.has_key
                       /\ session_state'.key_pos = session_state.key_pos
                  ELSE events_unchanged
        /\ op' = "tick_move" =>
              IF session_state'.oni_pos = session_state'.player_pos
              THEN /\ session_state'.game_over /\ ~session_state'.win
                   /\ session_state'.has_key = session_state.has_key
                   /\ session_state'.key_pos = session_state.key_pos
              ELSE events_unchanged ]_vars

(* The player has walked into the enemy standing on the key cell: the game  *)
(* is lost and the key still lies there.                                    *)
C16_Witness ==
    /\ op = "move"
    /\ session_state.game_over
    /\ session_state.player_pos = session_state.oni_pos
    /\ session_state.key_pos = session_state.player_pos
    /\ ~session_state.has_key

----------------------------------------------------------------------------
(* The readings of the clock a run of automatic_oni_move can make: the time *)
(* since the last enemy move, after any of the delays.                      *)
readings(s) == {Min(s.oni_elapsed + dt, ElapsedCap) : dt \in Delays}

(* C17: a run of automatic_oni_move calls move_oni, then check_events, and  *)
(* restarts the time since the last enemy move, only when the game is       *)
(* neither lost nor won and that time is strictly above the interval of     *)
(* the difficulty (Easy 1.5 s, Normal 1.0 s, Hard 0.8 s); any other run     *)
(* leaves the enemy position, the stunned turns and the time of the last    *)
(* enemy move alone.  Player moves, bulk moves and trap placements leave    *)
(* that time alone too, so the enemy never moves within one interval of     *)
(* its previous move.                                                       *)
C17_TickOnlyAfterInterval ==
    [][ /\ op' = "tick_move" =>
              /\ ~terminal(session_state)
              /\ \E now \in readings(session_state) :
                    /\ now > interval(session_state)
                    /\ session_state' =
                          [check_events(move_oni(
                               [session_state EXCEPT !.oni_elapsed = now]))
                             EXCEPT !.oni_elapsed = 0]
        /\ op' = "tick_wait" =>
              /\ session_state'.oni_pos = session_state.oni_pos
              /\ session_state'.oni_stopped_turns = session_state.oni_stopped_turns
              /\ IF terminal(session_state)
                 THEN session_state' = session_state
                 ELSE /\ session_state'.oni_elapsed \in readings(session_state)
                      /\ session_state'.oni_elapsed <= interval(session_state)
        /\ is_player_op(op') =>
              session_state'.oni_elapsed = session_state.oni_elapsed
        /\ (same_session /\ session_state'.oni_pos # session_state.oni_pos) =>
              /\ op' = "tick_move"
              /\ session_state.oni_elapsed + TimeStep > interval(session_state) ]_vars

(* A run of automatic_oni_move has found the time since the last enemy move *)
(* equal to the interval, and has left the enemy where it was.              *)
C17_Witness ==
    /\ op = "tick_wait"
    /\ ~terminal(session_state)
    /\ session_state.oni_elapsed = interval(session_state)
    /\ session_state.player_pos # INITIAL_PLAYER_POS

----------------------------------------------------------------------------
(* The greedy reference policy of one enemy step.                           *)

toward(d) == IF d > 0 THEN 1 ELSE IF d < 0 THEN -1 ELSE 0

(* The neighbour of the enemy one cell toward the player along an axis, or  *)
(* None when the distance along that axis is zero or the neighbour is Wall. *)
try_axis(s, axis) ==
    LET d == IF axis = "x" THEN <<toward(s.player_pos[1] - s.oni_pos[1]), 0>>
             ELSE <<0, toward(s.player_pos[2] - s.oni_pos[2])>>
        q == <<s.oni_pos[1] + d[1], s.oni_pos[2] + d[2]>>
    IN  IF d = <<0, 0>> THEN None
        ELSE IF s.game_map[q[2]][q[1]] = WALL THEN None
        ELSE q

greedy_step(s) ==
    LET first == IF Abs(s.player_pos[1] - s.oni_pos[1])
                      > Abs(s.player_pos[2] - s.oni_pos[2])
                 THEN "x" ELSE "y"
        second == IF first = "x" THEN "y" ELSE "x"
    IN  IF try_axis(s, first) # None THEN try_axis(s, first)
        ELSE IF try_axis(s, second) # None THEN try_axis(s, second)
        ELSE s.oni_pos

(* C18: on every grid and for every pair of positions one enemy step is the *)
(* step of the greedy policy: the axis of strictly larger distance first,   *)
(* the vertical one on equal distances, one cell toward the player unless   *)
(* that cell is Wall (Obstacle is passable), else the other axis the same   *)
(* way, else no move; the step changes nothing but the enemy position.      *)
C18_GreedyStep ==
    [][ op' = "one_step" =>
          session_state' = [session_state EXCEPT !.oni_pos = greedy_step(session_state)]
      ]_vars

(* One step has been asked of an enemy that stands on an Obstacle cell,     *)
(* walled in on all four sides and away from the player: it is still there. *)
C18_Witness ==
    /\ op = "one_step"
    /\ session_state.oni_pos # session_state.player_pos
    /\ cell(session_state, session_state.oni_pos[1], session_state.oni_pos[2]) = OBSTACLE
    /\ \A d \in Directions :
          cell(session_state, session_state.oni_pos[1] + d[1],
               session_state.oni_pos[2] + d[2]) = WALL

----------------------------------------------------------------------------
(* C19: in every state of a session the key is held exactly when the key    *)
(* position is absent, and once the key is held every step within the       *)
(* session (player move, bulk move, enemy tick, trap placement) keeps it    *)
(* held and the key position absent.                                        *)
C19_KeyOneWay ==
    /\ [](started => (session_state.has_key <=> session_state.key_pos = None))
    /\ [](fresh_session(op) => ~session_state.has_key)
    /\ [][ (same_session /\ session_state.has_key) =>
             /\ session_state'.has_key
             /\ session_state'.key_pos = None ]_vars

(* The enemy has moved in a game going on with the key already held: the   *)
(* key is still held and absent from the map.                               *)
C19_Witness ==
    /\ op = "tick_move"
    /\ session_state.has_key
    /\ session_state.key_pos = None
    /\ ~terminal(session_state)

----------------------------------------------------------------------------
(* C20: in every state of a session the player stands strictly inside the   *)
(* border, on a cell that is neither Wall nor Obstacle, so the cell a move  *)
(* or a bulk-move step looks at, one step away, lies within the grid.       *)
C20_PlayerOnFreeInteriorCell ==
    started =>
        /\ session_state.player_pos \in Interior
        /\ cell(session_state, session_state.player_pos[1],
                session_state.player_pos[2]) \notin {WALL, OBSTACLE}
        /\ \A d \in Directions :
              <<session_state.player_pos[1] + d[1],
                session_state.player_pos[2] + d[2]>> \in Cells

(* The player has walked to the far corner inside the border, and a bulk    *)
(* move was stopped there.                                                  *)
C20_Witness ==
    /\ op = "bulk"
    /\ session_state.message = "bulk_wall"
    /\ session_state.player_pos = <<MAP_WIDTH - 2, MAP_HEIGHT - 2>>
====
